---- MODULE Spec2Model ----
(***************************************************************************)
(* Model of cron/sentiment_fetch.py: one run of main(), which loads the    *)
(* configuration (load_config), issues one POST (fetch_sentiment_data) and *)
(* turns the outcome into the process exit status.                         *)
(*                                                                         *)
(* Strings that the program takes apart (environment values, config file   *)
(* lines, URLs) are sequences of one-character strings.  Exceptions are    *)
(* class names with the class hierarchy of Python / requests, so that an   *)
(* except clause is an isinstance test and the order of clauses matters.   *)
(***************************************************************************)
EXTENDS Integers, Sequences, FiniteSets, TLC

VARIABLES
    pc,          \* position of the run inside main / load_config / fetch_sentiment_data
    environ,     \* os.environ: function from key to value
    env0,        \* os.environ as it was when the process started
    cfgExists,   \* config_file.exists()
    cfgLines,    \* the lines of config.env, in order
    idx,         \* index of the next line of the for loop of load_config
    config,      \* the dict returned by load_config
    request,     \* the arguments of the requests.post call
    posts,       \* number of requests.post calls made
    response,    \* what requests.post produced: a response or a raised exception
    success,     \* return value of fetch_sentiment_data ("unset" before it returns)
    outcome,     \* the branch of fetch_sentiment_data that returned
    exc,         \* the exception in flight in main
    log,         \* the records emitted through logger, in order
    exitStatus,  \* process exit status (-1 while running)
    uncaught     \* TRUE if an exception other than SystemExit left main

vars == <<pc, environ, env0, cfgExists, cfgLines, idx, config, request, posts,
          response, success, outcome, exc, log, exitStatus, uncaught>>

\* ------------------------------------------------------------------ bounds
MaxLines == 2      \* longest config file, in lines
MaxSlashes == 2    \* most trailing slashes of a BASE_URL value

\* ------------------------------------------------------------- constants
HTTP_OK == 200

None == <<"None">>   \* Python's None, distinct from every character sequence

BASE_URL == <<"B","A","S","E","_","U","R","L">>
CRON_SECRET == <<"C","R","O","N","_","S","E","C","R","E","T">>
REQUEST_TIMEOUT == <<"R","E","Q","U","E","S","T","_","T","I","M","E","O","U","T">>
PATH == <<"P","A","T","H">>

DefaultTimeout == <<"3","0","0">>

EndpointPath ==
    <<"/","a","p","i","/","c","r","o","n","/",
      "s","e","n","t","i","m","e","n","t","-","d","a","t","a">>

Whitespace == {" ", "\t", "\n", "\r"}

\* ------------------------------------------------------- string functions
\* a strip that removes at most one trailing character
rstripOnce(s, chars) ==
    IF s # <<>> /\ s[Len(s)] \in chars THEN SubSeq(s, 1, Len(s) - 1) ELSE s

RECURSIVE rstrip(_, _)
\* str.rstrip(chars): drop every trailing character that is in chars
rstrip(s, chars) ==
    IF s # <<>> /\ s[Len(s)] \in chars
    THEN rstrip(SubSeq(s, 1, Len(s) - 1), chars)
    ELSE s

RECURSIVE lstrip(_, _)
\* str.lstrip(chars)
lstrip(s, chars) ==
    IF s # <<>> /\ s[1] \in chars THEN lstrip(Tail(s), chars) ELSE s

\* str.strip() with no argument: whitespace on both sides
strip(s) == lstrip(rstrip(s, Whitespace), Whitespace)

\* str.startswith(c) for a one-character prefix
startswith(s, c) == s # <<>> /\ s[1] = c

\* c in s
Contains(s, c) == \E i \in 1..Len(s) : s[i] = c

\* s.find(c) for a character that occurs in s (1-based)
Find(s, c) == CHOOSE i \in 1..Len(s) : s[i] = c /\ \A j \in 1..(i - 1) : s[j] # c

\* s.split(c, 1) for a line that contains c: <<before, after>>
split1(s, c) == <<SubSeq(s, 1, Find(s, c) - 1), SubSeq(s, Find(s, c) + 1, Len(s))>>

Digits == <<"0","1","2","3","4","5","6","7","8","9">>
DigitSet == {Digits[i] : i \in 1..10}
DigitVal(c) == (CHOOSE i \in 1..10 : Digits[i] = c) - 1

RECURSIVE DigitsVal(_)
DigitsVal(s) ==
    IF s = <<>> THEN 0
    ELSE 10 * DigitsVal(SubSeq(s, 1, Len(s) - 1)) + DigitVal(s[Len(s)])

\* the text int() parses after stripping whitespace and an optional sign
IntBody(s) ==
    IF strip(s) # <<>> /\ strip(s)[1] \in {"+", "-"} THEN Tail(strip(s)) ELSE strip(s)

\* int(s) raises ValueError unless this holds
IsIntLiteral(s) == IntBody(s) # <<>> /\ \A i \in 1..Len(IntBody(s)) : IntBody(s)[i] \in DigitSet

\* int(s) for a literal
ParseInt(s) ==
    IF strip(s)[1] = "-" THEN 0 - DigitsVal(IntBody(s)) ELSE DigitsVal(IntBody(s))

RECURSIVE NatToStr(_)
NatToStr(n) ==
    IF n < 10 THEN <<Digits[n + 1]>> ELSE NatToStr(n \div 10) \o <<Digits[(n % 10) + 1]>>

\* str(n) for an int
IntToStr(n) == IF n < 0 THEN <<"-">> \o NatToStr(0 - n) ELSE NatToStr(n)

\* ------------------------------------------------------ exception classes
\* direct base classes of the exception classes the run can meet
\* (builtins, json, simplejson, requests.exceptions)
Parents(c) ==
    CASE c = "BaseException" -> {}
      [] c \in {"SystemExit", "Exception"} -> {"BaseException"}
      [] c \in {"ValueError", "OSError", "AttributeError", "LookupError"} -> {"Exception"}
      [] c = "KeyError" -> {"LookupError"}
      [] c \in {"json.JSONDecodeError", "simplejson.JSONDecodeError"} -> {"ValueError"}
      [] c = "RequestException" -> {"OSError"}
      [] c \in {"Timeout", "ConnectionError", "InvalidJSONError"} -> {"RequestException"}
      [] c = "ReadTimeout" -> {"Timeout"}
      [] c = "ConnectTimeout" -> {"ConnectionError", "Timeout"}
      [] c = "requests.JSONDecodeError" -> {"InvalidJSONError", "json.JSONDecodeError"}

RECURSIVE issubclass(_, _)
issubclass(c, d) == c = d \/ \E p \in Parents(c) : issubclass(p, d)

\* index of the first except clause of a try statement that catches cls, 0 if none
Dispatch(clauses, cls) ==
    IF \E i \in 1..Len(clauses) : issubclass(cls, clauses[i].catches)
    THEN CHOOSE i \in 1..Len(clauses) :
            /\ issubclass(cls, clauses[i].catches)
            /\ \A j \in 1..(i - 1) : ~issubclass(cls, clauses[j].catches)
    ELSE 0

NoExc == [cls |-> "none", code |-> 0]
SystemExit(code) == [cls |-> "SystemExit", code |-> code]
Raised(cls) == [cls |-> cls, code |-> 0]

\* ------------------------------------------------------------ log records
Banner == "============================================================"
Rec(level, msg, arg) == [level |-> level, msg |-> msg, arg |-> arg]
Info(msg, arg) == Rec("INFO", msg, arg)
Error(msg, arg) == Rec("ERROR", msg, arg)

\* --------------------------------------------------------------- os.environ
\* os.getenv(key, default)
getenv(env, key, default) == IF key \in DOMAIN env THEN env[key] ELSE default

\* os.environ[key] = value
setenv(env, key, value) ==
    [k \in DOMAIN env \cup {key} |-> IF k = key THEN value ELSE env[k]]

\* os.environ[key] = value raises for a name putenv rejects
ValidEnvName(key) == key # <<>> /\ ~Contains(key, "=")

\* the test of load_config that guards os.environ[key] = value
ShouldSetAlways(key, env) == TRUE

ShouldSet(key, env) == key \notin DOMAIN env

\* the two "if not ..." tests of load_config: the variable reported missing
MissingVarBaseOnly(base_url, cron_secret) ==
    IF base_url = None \/ base_url = <<>> THEN "BASE_URL" ELSE "none"

MissingVar(base_url, cron_secret) ==
    IF base_url = None \/ base_url = <<>> THEN "BASE_URL"
    ELSE IF cron_secret = None \/ cron_secret = <<>> THEN "CRON_SECRET"
    ELSE "none"

\* -------------------------------------------------------- response bodies
Object(fields) == [ok |-> TRUE, type |-> "object", fields |-> fields]
Scalar(type) == [ok |-> TRUE, type |-> type, fields |-> <<>>]
Invalid == [ok |-> FALSE, type |-> "none", fields |-> <<>>]

FieldNames == {"dataPoints", "topPosts", "timestamp"}

\* response.json() on the bodies the endpoint is made to send
ParseJSON(body) ==
    CASE body = "{}" -> Object([k \in {} |-> <<>>])
      [] body = "{\"dataPoints\":5}" -> Object([k \in {"dataPoints"} |-> <<"5">>])
      [] body = "{\"dataPoints\":5,\"topPosts\":3,\"timestamp\":\"t\"}" ->
            Object([k \in FieldNames |->
                      IF k = "dataPoints" THEN <<"5">>
                      ELSE IF k = "topPosts" THEN <<"3">> ELSE <<"t">>])
      [] body = "[]" -> Scalar("array")
      [] body = "null" -> Scalar("null")
      [] body = "server error" -> Invalid
      [] body = "" -> Invalid

Bodies ==
    {"{}", "{\"dataPoints\":5}", "{\"dataPoints\":5,\"topPosts\":3,\"timestamp\":\"t\"}",
     "[]", "null", "server error", ""}

\* a lookup result[key] in place of result.get(key, 'N/A')
GetRaisesStrict(result) ==
    IF result.type # "object" THEN "AttributeError"
    ELSE IF \E k \in FieldNames : k \notin DOMAIN result.fields THEN "KeyError"
    ELSE "none"

\* the exception the three result.get(...) calls raise on the parsed body:
\* only a dict has a get method
GetRaises(result) == IF result.type # "object" THEN "AttributeError" ELSE "none"

\* result.get(key, 'N/A') on a dict
DictGet(fields, key) == IF key \in DOMAIN fields THEN fields[key] ELSE <<"N", "/", "A">>

\* the exception response.json() raises on a body that is not JSON: json's own
\* class (requests < 2.27 without simplejson), simplejson's (requests < 2.27
\* with simplejson) or requests.exceptions.JSONDecodeError (requests >= 2.27);
\* the repository pins no version
JsonErrors == {"json.JSONDecodeError", "simplejson.JSONDecodeError", "requests.JSONDecodeError"}

\* what requests.post can raise instead of returning a response
PostErrors == {"ReadTimeout", "ConnectTimeout", "ConnectionError", "ValueError"}

Statuses == {200, 500}

\* the test "response.status_code == 200"
StatusOk(status) == status = HTTP_OK

NoResponse == [kind |-> "none", status |-> 0, body |-> "", raised |-> "none"]
Response(status, body) == [kind |-> "response", status |-> status, body |-> body, raised |-> "none"]
PostRaised(cls) == [kind |-> "raised", status |-> 0, body |-> "", raised |-> cls]

\* the except clauses of fetch_sentiment_data, in source order
FetchHandlersSwapped ==
    <<[catches |-> "RequestException", outcome |-> "Transport", msg |-> "Request failed"],
      [catches |-> "Timeout", outcome |-> "Timeout", msg |-> "Request timed out after"],
      [catches |-> "json.JSONDecodeError", outcome |-> "Malformed", msg |-> "Failed to parse JSON response"],
      [catches |-> "Exception", outcome |-> "Unexpected", msg |-> "Unexpected error"]>>

FetchHandlers ==
    <<[catches |-> "Timeout", outcome |-> "Timeout", msg |-> "Request timed out after"],
      [catches |-> "RequestException", outcome |-> "Transport", msg |-> "Request failed"],
      [catches |-> "json.JSONDecodeError", outcome |-> "Malformed", msg |-> "Failed to parse JSON response"],
      [catches |-> "Exception", outcome |-> "Unexpected", msg |-> "Unexpected error"]>>

\* the except clause of main
MainCatchesAll(cls) == TRUE

MainCatchesOSError(cls) == issubclass(cls, "OSError")

MainCatches(cls) == issubclass(cls, "Exception")

NoConfig == [base_url |-> None, cron_secret |-> None, timeout |-> 0]
NoRequest == [url |-> None, authorization |-> None, timeout |-> 0]
Bearer == <<"B", "e", "a", "r", "e", "r", " ">>

\* ------------------------------------------------------------ the inputs
\* lines a config.env can hold, each as read by "for line in f"
LineBaseUrl == <<"B","A","S","E","_","U","R","L","=","f","/","\n">>
LineSecret == <<" ","C","R","O","N","_","S","E","C","R","E","T"," ","="," ","t","=","u"," ","\n">>
LineTimeout == <<"R","E","Q","U","E","S","T","_","T","I","M","E","O","U","T","=","0","7","\n">>
LineComment == <<"#","A","=","1","\n">>
LineNoKey == <<"=","x","\n">>
LineBlank == <<" ","\n">>
LineNoEquals == <<"A","\n">>

FileLines ==
    {LineBaseUrl, LineSecret, LineTimeout, LineComment, LineNoKey, LineBlank, LineNoEquals}

RECURSIVE SeqsUpTo(_, _)
\* the sequences over S of length at most n
SeqsUpTo(S, n) ==
    IF n = 0 THEN {<<>>}
    ELSE SeqsUpTo(S, n - 1) \cup
         {Append(q, x) : q \in {r \in SeqsUpTo(S, n - 1) : Len(r) = n - 1}, x \in S}

RECURSIVE Slashes(_)
Slashes(n) == IF n = 0 THEN <<>> ELSE Append(Slashes(n - 1), "/")

\* values of BASE_URL in the environment (None: not set)
BaseUrlValues ==
    {None} \cup {p \o Slashes(n) : p \in {<<>>, <<"h">>}, n \in 0..MaxSlashes}

SecretValues == {None, <<>>, <<"s">>}

TimeoutValues == {None, <<"5">>, <<"0", "9">>, <<"a">>}

\* the process environment with the given values for the three variables
MkEnv(b, c, t) ==
    [k \in {PATH} \cup {x \in {BASE_URL} : b # None} \cup {x \in {CRON_SECRET} : c # None}
            \cup {x \in {REQUEST_TIMEOUT} : t # None} |->
        IF k = BASE_URL THEN b
        ELSE IF k = CRON_SECRET THEN c
        ELSE IF k = REQUEST_TIMEOUT THEN t
        ELSE <<"p">>]

Init ==
    /\ pc = "main_start"
    /\ \E b \in BaseUrlValues, c \in SecretValues, t \in TimeoutValues :
          /\ environ = MkEnv(b, c, t)
          /\ env0 = MkEnv(b, c, t)
    /\ cfgExists \in BOOLEAN
    /\ cfgLines \in SeqsUpTo(FileLines, MaxLines)
    /\ (~cfgExists => cfgLines = <<>>)
    /\ idx = 1
    /\ config = NoConfig
    /\ request = NoRequest
    /\ posts = 0
    /\ response = NoResponse
    /\ success = "unset"
    /\ outcome = "none"
    /\ exc = NoExc
    /\ log = <<>>
    /\ exitStatus = -1
    /\ uncaught = FALSE

\* ------------------------------------------------------------- the steps
\* main, lines 113-116: the start banner
MainStart ==
    /\ pc = "main_start"
    /\ log' = log \o <<Info(Banner, <<>>),
                       Info("DAILY SENTIMENT ANALYSIS CRON JOB STARTED", <<>>),
                       Info("Current time:", <<>>),
                       Info(Banner, <<>>)>>
    /\ pc' = "load_open"
    /\ UNCHANGED <<environ, env0, cfgExists, cfgLines, idx, config, request, posts,
                   response, success, outcome, exc, exitStatus, uncaught>>

\* load_config, lines 32-37: the config file is opened if it exists; open()
\* can fail with an OSError (a directory, a file that cannot be read)
LoadConfigOpen ==
    /\ pc = "load_open"
    /\ IF cfgExists
       THEN /\ log' = Append(log, Info("Loading config from", <<>>))
            /\ \E opened \in BOOLEAN :
                  IF opened
                  THEN /\ pc' = IF cfgLines = <<>> THEN "load_required" ELSE "load_line"
                       /\ exc' = exc
                  ELSE /\ pc' = "main_except"
                       /\ exc' = Raised("OSError")
       ELSE /\ pc' = "load_required"
            /\ UNCHANGED <<log, exc>>
    /\ UNCHANGED <<environ, env0, cfgExists, cfgLines, idx, config, request, posts,
                   response, success, outcome, exitStatus, uncaught>>

\* load_config, lines 38-45: one iteration of the loop over the file's lines
LoadConfigLine ==
    /\ pc = "load_line"
    /\ idx <= Len(cfgLines)
    /\ LET line == strip(cfgLines[idx])
           isEntry == line # <<>> /\ ~startswith(line, "#") /\ Contains(line, "=")
           key == strip(split1(line, "=")[1])
           value == split1(line, "=")[2]
           loop == IF idx = Len(cfgLines) THEN "load_required" ELSE "load_line"
       IN  IF isEntry /\ ShouldSet(key, environ)
           THEN IF ValidEnvName(key)
                THEN /\ environ' = setenv(environ, key, strip(value))
                     /\ pc' = loop
                     /\ exc' = exc
                ELSE /\ \E cls \in {"OSError", "ValueError"} : exc' = Raised(cls)
                     /\ pc' = "main_except"
                     /\ environ' = environ
           ELSE /\ pc' = loop
                /\ UNCHANGED <<environ, exc>>
    /\ idx' = idx + 1
    /\ UNCHANGED <<env0, cfgExists, cfgLines, config, request, posts,
                   response, success, outcome, log, exitStatus, uncaught>>

\* load_config, lines 48-63: the required variables, then the returned dict
LoadConfigRequired ==
    /\ pc = "load_required"
    /\ LET base_url == getenv(environ, BASE_URL, None)
           cron_secret == getenv(environ, CRON_SECRET, None)
           timeout == getenv(environ, REQUEST_TIMEOUT, DefaultTimeout)
           missing == MissingVar(base_url, cron_secret)
       IN  IF missing = "BASE_URL"
           THEN /\ log' = Append(log, Error("BASE_URL environment variable is required", <<>>))
                /\ exc' = SystemExit(1)
                /\ pc' = "main_except"
                /\ config' = config
           ELSE IF missing = "CRON_SECRET"
           THEN /\ log' = Append(log, Error("CRON_SECRET environment variable is required", <<>>))
                /\ exc' = SystemExit(1)
                /\ pc' = "main_except"
                /\ config' = config
           ELSE IF IsIntLiteral(timeout)
           THEN /\ config' = [base_url |-> rstrip(base_url, {"/"}),
                              cron_secret |-> cron_secret,
                              timeout |-> ParseInt(timeout)]
                /\ pc' = "main_loaded"
                /\ UNCHANGED <<log, exc>>
           ELSE /\ exc' = Raised("ValueError")
                /\ pc' = "main_except"
                /\ UNCHANGED <<log, config>>
    /\ UNCHANGED <<environ, env0, cfgExists, cfgLines, idx, request, posts,
                   response, success, outcome, exitStatus, uncaught>>

\* fetch_sentiment_data, line 67
Url(cfg) == cfg.base_url \o EndpointPath

\* main, line 121, and fetch_sentiment_data, lines 67-74, up to the call
MainConfigLoaded ==
    /\ pc = "main_loaded"
    /\ log' = log \o <<Info("Configuration loaded - Base URL:", config.base_url),
                       Info("Starting sentiment data fetch from", Url(config))>>
    /\ pc' = "fetch_post"
    /\ UNCHANGED <<environ, env0, cfgExists, cfgLines, idx, config, request, posts,
                   response, success, outcome, exc, exitStatus, uncaught>>

\* fetch_sentiment_data, lines 77-82: the requests.post call, which returns a
\* response or raises
FetchPost ==
    /\ pc = "fetch_post"
    /\ request' = [url |-> Url(config),
                   authorization |-> Bearer \o config.cron_secret,
                   timeout |-> config.timeout]
    /\ posts' = posts + 1
    /\ \/ \E st \in Statuses, body \in Bodies : response' = Response(st, body)
       \/ \E cls \in PostErrors : response' = PostRaised(cls)
    /\ pc' = "fetch_handle"
    /\ UNCHANGED <<environ, env0, cfgExists, cfgLines, idx, config,
                   success, outcome, exc, log, exitStatus, uncaught>>

\* fetch_sentiment_data, lines 98-109: an exception of class cls raised inside
\* the try block, after the records of l were logged
FetchExcept(cls, l) ==
    LET i == Dispatch(FetchHandlers, cls)
    IN  IF i = 0
        THEN /\ exc' = Raised(cls)
             /\ pc' = "main_except"
             /\ log' = l
             /\ UNCHANGED <<success, outcome>>
        ELSE /\ log' = Append(l, Error(FetchHandlers[i].msg,
                                     IF FetchHandlers[i].outcome = "Timeout"
                                     THEN IntToStr(config.timeout) ELSE <<cls>>))
             /\ success' = "False"
             /\ outcome' = FetchHandlers[i].outcome
             /\ pc' = "main_report"
             /\ exc' = exc

\* fetch_sentiment_data, lines 84-109: the outcome of the call is classified
\* and the function returns to failPc on failure
FetchHandleTo(failPc) ==
    /\ pc = "fetch_handle"
    /\ IF response.kind = "raised"
       THEN FetchExcept(response.raised, log)
       ELSE LET l1 == Append(log, Info("Response status:", IntToStr(response.status)))
                result == ParseJSON(response.body)
                l2 == Append(l1, Info("Sentiment data fetch successful!", <<>>))
            IN  IF StatusOk(response.status)
                THEN IF ~result.ok
                     THEN \E cls \in JsonErrors : FetchExcept(cls, l1)
                     ELSE IF GetRaises(result) = "none"
                     THEN /\ log' = l2 \o
                                <<Info("Data points:", DictGet(result.fields, "dataPoints")),
                                  Info("Top posts:", DictGet(result.fields, "topPosts")),
                                  Info("Timestamp:", DictGet(result.fields, "timestamp"))>>
                          /\ success' = "True"
                          /\ outcome' = "Success"
                          /\ pc' = "main_report"
                          /\ exc' = exc
                     ELSE FetchExcept(GetRaises(result), l2)
                ELSE /\ log' = l1 \o <<Error("Request failed with status", IntToStr(response.status)),
                                       Error("Response:", <<response.body>>)>>
                     /\ success' = "False"
                     /\ outcome' = "HTTP failure"
                     /\ pc' = failPc
                     /\ exc' = exc
    /\ UNCHANGED <<environ, env0, cfgExists, cfgLines, idx, config, request, posts,
                   response, exitStatus, uncaught>>

\* a fetch that goes back to the call after a failed status
FetchHandleRetry == FetchHandleTo("fetch_post")

FetchHandle == FetchHandleTo("main_report")

\* main, lines 126-133: the outcome is logged and sys.exit raises SystemExit
\* inside the try block
MainReport ==
    /\ pc = "main_report"
    /\ IF success = "True"
       THEN /\ log' = log \o <<Info("Sentiment analysis cron job completed successfully", <<>>),
                               Info(Banner, <<>>)>>
            /\ exc' = SystemExit(0)
       ELSE /\ log' = log \o <<Error("Sentiment analysis cron job failed", <<>>),
                               Info(Banner, <<>>)>>
            /\ exc' = SystemExit(1)
    /\ pc' = "main_except"
    /\ UNCHANGED <<environ, env0, cfgExists, cfgLines, idx, config, request, posts,
                   response, success, outcome, exitStatus, uncaught>>

\* main, lines 135-138: the except clause sees the exception raised in the
\* try block; what it does not catch goes on to the interpreter
MainExcept ==
    /\ pc = "main_except"
    /\ IF MainCatches(exc.cls)
       THEN /\ log' = log \o <<Error("Fatal error in cron job:", <<exc.cls>>),
                               Info(Banner, <<>>)>>
            /\ exc' = SystemExit(1)
       ELSE UNCHANGED <<log, exc>>
    /\ pc' = "propagate"
    /\ UNCHANGED <<environ, env0, cfgExists, cfgLines, idx, config, request, posts,
                   response, success, outcome, exitStatus, uncaught>>

\* lines 140-141: the exception leaves main; SystemExit sets the exit status,
\* any other exception is reported by the interpreter with status 1
ProcessExit ==
    /\ pc = "propagate"
    /\ IF exc.cls = "SystemExit"
       THEN /\ exitStatus' = exc.code
            /\ uncaught' = uncaught
       ELSE /\ exitStatus' = 1
            /\ uncaught' = TRUE
    /\ pc' = "exited"
    /\ UNCHANGED <<environ, env0, cfgExists, cfgLines, idx, config, request, posts,
                   response, success, outcome, exc, log>>

Next ==
    \/ MainStart
    \/ LoadConfigOpen
    \/ LoadConfigLine
    \/ LoadConfigRequired
    \/ MainConfigLoaded
    \/ FetchPost
    \/ FetchHandle
    \/ MainReport
    \/ MainExcept
    \/ ProcessExit

Spec == Init /\ [][Next]_vars

\* ---------------------------------------------------------------- typing
TypeOK ==
    /\ pc \in {"main_start", "load_open", "load_line", "load_required", "main_loaded",
               "fetch_post", "fetch_handle", "main_report", "main_except", "propagate", "exited"}
    /\ posts \in 0..1
    /\ success \in {"unset", "True", "False"}
    /\ exitStatus \in {-1, 0, 1}
    /\ uncaught \in BOOLEAN
    /\ idx \in 1..(Len(cfgLines) + 1)

\* ------------------------------------------------------------- properties
Logged(msg) == \E i \in 1..Len(log) : log[i].msg = msg

MsgBaseUrlRequired == "BASE_URL environment variable is required"
MsgSecretRequired == "CRON_SECRET environment variable is required"
MsgFatal == "Fatal error in cron job:"
MsgCompleted == "Sentiment analysis cron job completed successfully"
MsgTimedOut == "Request timed out after"
MsgRequestFailed == "Request failed"
MsgParseFailed == "Failed to parse JSON response"
MsgUnexpected == "Unexpected error"

Exited == pc = "exited"
Got200 == response.kind = "response" /\ response.status = 200

\* C1: a finished run has exit status 0 or 1, and the status is 0 exactly when
\* load_config returned a configuration and fetch_sentiment_data returned
\* True; the except clause of main turns neither exit into the other.
C1_ExitStatus ==
    Exited =>
        /\ exitStatus \in {0, 1}
        /\ (exitStatus = 0) <=> (config # NoConfig /\ success = "True")

C1_Witness == Exited /\ exitStatus = 0 /\ config # NoConfig /\ success = "True"

\* C2: a key present in the environment when the process starts keeps its
\* value whatever the config file holds, and the URL, the secret and the
\* timeout of the request come from the environment when it defines them.
C2_EnvPrecedence ==
    /\ \A k \in DOMAIN env0 : k \in DOMAIN environ /\ environ[k] = env0[k]
    /\ request # NoRequest =>
          /\ BASE_URL \in DOMAIN env0 =>
                \E n \in 0..Len(env0[BASE_URL]) :
                    /\ request.url = SubSeq(env0[BASE_URL], 1, n) \o EndpointPath
                    /\ \A i \in (n + 1)..Len(env0[BASE_URL]) : env0[BASE_URL][i] = "/"
          /\ CRON_SECRET \in DOMAIN env0 =>
                request.authorization = Bearer \o env0[CRON_SECRET]
          /\ REQUEST_TIMEOUT \in DOMAIN env0 =>
                request.timeout = ParseInt(env0[REQUEST_TIMEOUT])

C2_Witness ==
    /\ request # NoRequest
    /\ BASE_URL \in DOMAIN env0
    /\ env0[BASE_URL] = <<"h">>
    /\ \E i \in 1..Len(cfgLines) : cfgLines[i] = LineBaseUrl
    /\ request.url = <<"h">> \o EndpointPath

\* C3: when BASE_URL or CRON_SECRET is supplied neither by the environment nor
\* by the config file, the run exits with status 1 and no request was ever
\* issued; BASE_URL is checked and reported before CRON_SECRET.
C3_FailFast ==
    /\ posts > 0 => BASE_URL \in DOMAIN environ /\ CRON_SECRET \in DOMAIN environ
    /\ (Exited /\ (BASE_URL \notin DOMAIN environ \/ CRON_SECRET \notin DOMAIN environ)) =>
          exitStatus = 1 /\ posts = 0 /\ request = NoRequest
    /\ (Exited /\ BASE_URL \notin DOMAIN environ /\ ~Logged(MsgFatal)) =>
          Logged(MsgBaseUrlRequired) /\ ~Logged(MsgSecretRequired)

C3_Witness ==
    /\ Exited
    /\ cfgExists
    /\ BASE_URL \in DOMAIN environ
    /\ CRON_SECRET \notin DOMAIN environ
    /\ Logged(MsgSecretRequired)
    /\ exitStatus = 1
    /\ posts = 0

\* C4: a run issues at most one POST, exactly one when load_config returned a
\* configuration, and none after the outcome of the first was classified.
C4_NoRetry ==
    /\ posts <= 1
    /\ config = NoConfig => posts = 0
    /\ (Exited /\ config # NoConfig) => posts = 1
    /\ outcome # "none" => pc \notin {"fetch_post", "fetch_handle"}

C4_Witness == Exited /\ posts = 1 /\ success = "False" /\ outcome = "HTTP failure"

\* C5 as stated: status 200 with any valid JSON body gives the success banner
\* and exit status 0.
C5_AnyValidJson ==
    (Exited /\ Got200 /\ ParseJSON(response.body).ok) =>
        exitStatus = 0 /\ Logged(MsgCompleted)

\* C5 amended: status 200 with a body that is a JSON object gives the success
\* banner and exit status 0, whichever of dataPoints, topPosts, timestamp the
\* object lacks.
C5_JsonObject ==
    (Exited /\ Got200 /\ response.body \in {"{}", "{\"dataPoints\":5}",
                               "{\"dataPoints\":5,\"topPosts\":3,\"timestamp\":\"t\"}"}) =>
        exitStatus = 0 /\ Logged(MsgCompleted) /\ success = "True"

C5_Witness == Exited /\ Got200 /\ response.body = "{}" /\ exitStatus = 0 /\ Logged(MsgCompleted)

\* C6: status 200 with a body that is not JSON is classified as Malformed
\* response: the parse-failure message is logged, not the transport-failure
\* or the unexpected-error message, the fetch fails and the exit status is 1.
C6_MalformedResponse ==
    (Exited /\ Got200 /\ response.body \in {"server error", ""}) =>
        /\ outcome = "Malformed"
        /\ Logged(MsgParseFailed)
        /\ ~Logged(MsgRequestFailed)
        /\ ~Logged(MsgUnexpected)
        /\ success = "False"
        /\ exitStatus = 1

\* the part of the request URL before the endpoint path
UrlBase == SubSeq(request.url, 1, Len(request.url) - Len(EndpointPath))
UrlPath == SubSeq(request.url, Len(request.url) - Len(EndpointPath) + 1, Len(request.url))

\* C7 as stated: the request URL is BASE_URL without one trailing slash,
\* followed by the endpoint path.
C7_SingleSlash ==
    request # NoRequest =>
        LET b == environ[BASE_URL]
        IN  /\ UrlPath = EndpointPath
            /\ UrlBase = IF b[Len(b)] = "/" THEN SubSeq(b, 1, Len(b) - 1) ELSE b

\* C7 amended: the request URL is BASE_URL without all of its trailing
\* slashes, followed by the endpoint path, so there is no double slash at the
\* join; a BASE_URL without a trailing slash is used unchanged.
C7_AllSlashes ==
    request # NoRequest =>
        LET b == environ[BASE_URL]
        IN  /\ UrlPath = EndpointPath
            /\ Len(UrlBase) <= Len(b)
            /\ UrlBase = SubSeq(b, 1, Len(UrlBase))
            /\ \A i \in (Len(UrlBase) + 1)..Len(b) : b[i] = "/"
            /\ UrlBase # <<>> => UrlBase[Len(UrlBase)] # "/"
            /\ b[Len(b)] # "/" => UrlBase = b

C7_Witness ==
    /\ request # NoRequest
    /\ environ[BASE_URL] = <<"h", "/", "/">>
    /\ request.url = <<"h">> \o EndpointPath

\* C8: every run logs the start banner before the configuration is loaded and
\* a closing banner before the process exits, on every exit path.
C8_Banners ==
    /\ pc # "main_start" => Len(log) >= 4 /\ log[1].msg = Banner /\ log[4].msg = Banner
    /\ Exited => Len(log) > 4 /\ log[Len(log)].msg = Banner

\* C9: a fault raised while the configuration is loaded (the run left
\* load_config with no configuration and no missing-variable report) is
\* caught in main, logged as a fatal error and ends the run with status 1
\* and no request issued; no exception other than SystemExit leaves main.
C9_CatchAll ==
    /\ ~uncaught
    /\ (pc \in {"propagate", "exited"} /\ config = NoConfig
            /\ ~Logged(MsgBaseUrlRequired) /\ ~Logged(MsgSecretRequired)) =>
          /\ Logged(MsgFatal)
          /\ exc = SystemExit(1)
          /\ posts = 0
          /\ Exited => exitStatus = 1

C9_Witness ==
    /\ Exited
    /\ REQUEST_TIMEOUT \in DOMAIN environ
    /\ environ[REQUEST_TIMEOUT] = <<"a">>
    /\ config = NoConfig
    /\ Logged(MsgFatal)
    /\ exitStatus = 1
    /\ posts = 0

\* C10: once the POST was made, fetch_sentiment_data returns a boolean with
\* exactly one outcome and raises nothing; it returns True only for Success;
\* a timeout is classified as Timeout, with the configured duration logged,
\* and any other network fault as Transport failure.
C10_Classification ==
    (posts = 1 /\ pc # "fetch_handle") =>
        /\ success \in {"True", "False"}
        /\ outcome \in {"Success", "HTTP failure", "Timeout", "Transport", "Malformed", "Unexpected"}
        /\ (success = "True") <=> (outcome = "Success")
        /\ outcome = "Success" => Got200
        /\ (outcome = "HTTP failure") <=> (response.kind = "response" /\ response.status # 200)
        /\ ~Logged(MsgFatal)
        /\ response.raised \in {"ReadTimeout", "ConnectTimeout"} =>
              /\ outcome = "Timeout"
              /\ ~Logged(MsgRequestFailed)
              /\ \E i \in 1..Len(log) :
                    log[i].msg = MsgTimedOut /\ log[i].arg = IntToStr(request.timeout)
        /\ response.raised = "ConnectionError" =>
              outcome = "Transport" /\ Logged(MsgRequestFailed) /\ ~Logged(MsgTimedOut)

C10_Witness ==
    /\ Exited
    /\ response.raised = "ConnectTimeout"
    /\ outcome = "Timeout"
    /\ success = "False"
    /\ exitStatus = 1

====
